---- MODULE Spec2Model ----
(***************************************************************************)
(* Model of the request pipeline of the oanda client package:             *)
(* request modifiers, Client construction, Client.NewRequest,             *)
(* requestAndDecode (with closeResponse) and PollRequest.Poll.            *)
(*                                                                         *)
(* Three specifications are defined:                                       *)
(*   Spec     one caller: construction and requestAndDecode                *)
(*   SpecPoll one caller: Poll on a PollRequest, and requestAndDecode      *)
(*   SpecConc several goroutines calling requestAndDecode on one Client    *)
(*   SpecMod  the request modifiers applied, in any order and any number   *)
(*            of times, to a freshly constructed request                   *)
(***************************************************************************)
EXTENDS Naturals, Sequences, FiniteSets, TLC

VARIABLES
    client,     \* the *Client in use, nil before a constructor succeeded
    ctor,       \* the last constructor call: its arguments and what it returned
    Debug,      \* the package variable Debug
    pc,         \* per goroutine: position inside requestAndDecode
    args,       \* per goroutine: the arguments of the call in progress
    req,        \* per goroutine: the local req, a pointer into heap (0 = nil)
    heap,       \* the *http.Request objects that are alive
    dolog,      \* per goroutine: what c.Do answered in the call in progress,
                \* one error ("" for none) per c.Do call
    rsp,        \* per goroutine: the local rsp (with its Body), or nil
    ret,        \* per goroutine: the error returned by the finished call
    target,     \* per goroutine: the value v points to
    pr,         \* the PollRequest, or nil
    pret,       \* what the last Poll returned
    pollLog,    \* what the transport saw and answered for each Poll
    npolls,     \* number of Poll calls made
    mreq,       \* SpecMod: the request the modifiers are applied to
    mprev,      \* SpecMod: that request before the last modifier was applied
    mlast       \* SpecMod: the last modifier applied

vars == <<client, ctor, Debug, pc, args, req, heap, dolog, rsp, ret, target,
          pr, pret, pollLog, npolls, mreq, mprev, mlast>>

\* nil values, one per type
NilBody == [present |-> FALSE, content |-> <<>>]
NilHttpClient == [name |-> "nil"]
NilClient == [reqMods |-> <<>>, accountId |-> 0, http |-> NilHttpClient]
NoErr == [kind |-> "nil", e |-> "", api |-> {}]

(***************************************************************************)
(* Bounds of the model.                                                    *)
(***************************************************************************)
NThreads == 2
MaxPolls == 3

Threads == 1 .. NThreads

(***************************************************************************)
(* http.Header: canonical key -> list of values.                           *)
(***************************************************************************)
CanonicalKey(k) ==
    CASE k = "ETag" -> "Etag"
      [] k = "Authorization" -> "Authorization"
      [] k = "X-Accept-Datetime-Format" -> "X-Accept-Datetime-Format"
      [] k = "Content-Type" -> "Content-Type"
      [] k = "If-None-Match" -> "If-None-Match"

HeaderKeys == {"Etag", "Authorization", "X-Accept-Datetime-Format",
               "Content-Type", "If-None-Match"}

EmptyHeader == [k \in HeaderKeys |-> <<>>]

HeaderSet(h, k, v) == [h EXCEPT ![CanonicalKey(k)] = <<v>>]

HeaderGet(h, k) ==
    IF h[CanonicalKey(k)] = <<>> THEN "" ELSE h[CanonicalKey(k)][1]

(***************************************************************************)
(* url.Parse on the URL strings the model uses.                            *)
(***************************************************************************)
RelativeUrl == "/v1/accounts"
AbsoluteUrl == "http://localhost:8080/v1/accounts"
MalformedUrl == "%zz"

UrlStrs == {RelativeUrl, AbsoluteUrl, MalformedUrl}

ParseURL(s) ==
    CASE s = RelativeUrl ->
           [ok |-> TRUE, scheme |-> "", host |-> "", path |-> "/v1/accounts"]
      [] s = AbsoluteUrl ->
           [ok |-> TRUE, scheme |-> "http", host |-> "localhost:8080",
            path |-> "/v1/accounts"]
      [] OTHER ->
           [ok |-> FALSE, scheme |-> "", host |-> "", path |-> ""]

(***************************************************************************)
(* url.Values and Values.Encode: a list of (key, values); the encoding     *)
(* holds one key=value pair per value.                                     *)
(***************************************************************************)
NoData == <<>>
UnitsData == <<[k |-> "units", vs |-> <<"2">>]>>
KeyOnlyData == <<[k |-> "units", vs |-> <<>>]>>

RECURSIVE PairsOf(_, _)
PairsOf(k, vs) ==
    IF vs = <<>> THEN <<>> ELSE <<<<k, Head(vs)>>>> \o PairsOf(k, Tail(vs))

RECURSIVE Encode(_)
Encode(data) ==
    IF data = <<>> THEN <<>>
    ELSE PairsOf(Head(data).k, Head(data).vs) \o Encode(Tail(data))

\* the io.Reader requestAndDecode hands to NewRequest
BodyReader(data) ==
    IF Len(data) > 0 THEN [present |-> TRUE, content |-> Encode(data)] ELSE NilBody

(***************************************************************************)
(* Request modifiers.  A request is                                        *)
(*   [method, url: [scheme, host, path], header, body, modlog]             *)
(* where modlog lists the modifiers that were applied to it, in order.     *)
(***************************************************************************)
defaultDateFormat == [type |-> "DateFormat", val |-> "UNIX"]
defaultContentType ==
    [type |-> "ContentType", val |-> "application/x-www-form-urlencoded"]

TokenAuthenticatorModify(a, r) ==
    [r EXCEPT !.header = HeaderSet(@, "Authorization", "Bearer " \o a)]

EnvironmentModifyNoHostCheck(e, r) ==
    [r EXCEPT !.url = [@ EXCEPT !.scheme = "https",
                                !.host = "api-" \o e \o ".oanda.com"]]

EnvironmentModify(e, r) ==
    IF r.url.host = ""
    THEN [r EXCEPT !.url = [@ EXCEPT !.scheme = "https",
                                     !.host = "api-" \o e \o ".oanda.com"]]
    ELSE [r EXCEPT !.url = [@ EXCEPT !.scheme = "https"]]

DateFormatModify(d, r) ==
    [r EXCEPT !.header = HeaderSet(@, "X-Accept-Datetime-Format", d)]

ContentTypeModifyAlways(c, r) ==
    [r EXCEPT !.header = HeaderSet(@, "Content-Type", c)]

ContentTypeModify(c, r) ==
    IF r.body # NilBody
    THEN [r EXCEPT !.header = HeaderSet(@, "Content-Type", c)]
    ELSE r

\* reqMod.modify(req), dispatched on the modifier's type
Modify(m, r) ==
    LET r2 == CASE m.type = "TokenAuthenticator" -> TokenAuthenticatorModify(m.val, r)
                [] m.type = "Environment" -> EnvironmentModify(m.val, r)
                [] m.type = "DateFormat" -> DateFormatModify(m.val, r)
                [] m.type = "ContentType" -> ContentTypeModify(m.val, r)
    IN [r2 EXCEPT !.modlog = Append(@, m)]

\* http.NewRequest(method, urlStr, body) for a URL that parses
HttpNewRequest(method, u, body) ==
    [method |-> method,
     url |-> [scheme |-> u.scheme, host |-> u.host, path |-> u.path],
     header |-> EmptyHeader,
     body |-> body,
     modlog |-> <<>>]

RECURSIVE ApplyModsSkipFirst(_, _)
ApplyModsSkipFirst(mods, r) ==
    IF Len(mods) <= 1 THEN r
    ELSE ApplyModsSkipFirst(Tail(mods), Modify(mods[2], r))

\* the loop of Client.NewRequest
RECURSIVE ApplyMods(_, _)
ApplyMods(mods, r) ==
    IF mods = <<>> THEN r ELSE ApplyMods(Tail(mods), Modify(Head(mods), r))

NilReq == HttpNewRequest("", ParseURL(""), NilBody)

\* Client.NewRequest: the request, or the error of http.NewRequest
NewRequest(c, method, urlStr, body) ==
    LET u == ParseURL(urlStr)
    IN IF ~u.ok
       THEN [req |-> NilReq,
             err |-> [kind |-> "url", e |-> "invalid URL escape", api |-> {}]]
       ELSE [req |-> ApplyMods(c.reqMods, HttpNewRequest(method, u, body)),
             err |-> NoErr]

(***************************************************************************)
(* Client construction.                                                    *)
(***************************************************************************)
DefaultHttpClient == [name |-> "DefaultHttpClient"]
CustomHttpClient == [name |-> "custom"]

newClient(httpClient, reqMod) ==
    [reqMods |-> <<defaultDateFormat, defaultContentType>> \o reqMod,
     accountId |-> 0,
     http |-> httpClient]

NewClient(environment, token, httpClient) ==
    LET h == IF httpClient = NilHttpClient THEN DefaultHttpClient ELSE httpClient
    IN CASE environment = "fxpractice" ->
              [c |-> newClient(h, <<[type |-> "Environment", val |-> "fxpractice"],
                                    [type |-> "TokenAuthenticator", val |-> token]>>),
               err |-> ""]
         [] environment = "fxtrade" ->
              [c |-> newClient(h, <<[type |-> "Environment", val |-> "fxtrade"],
                                    [type |-> "TokenAuthenticator", val |-> token]>>),
               err |-> ""]
         [] OTHER ->
              [c |-> NilClient, err |-> "Invalid Oanda environment " \o environment]

NewFxPracticeClient(token) ==
    IF token = "" THEN [c |-> NilClient, err |-> "No FxPractice access token"]
    ELSE NewClient("fxpractice", token, NilHttpClient)

NewFxTradeClient(token) ==
    IF token = "" THEN [c |-> NilClient, err |-> "No FxTrade access token"]
    ELSE NewClient("fxtrade", token, NilHttpClient)

(***************************************************************************)
(* JSON bodies and json.Decoder.Decode.  A body is syntactically valid or  *)
(* not; a valid one is an object, a set of <<field, type, value>>.  A       *)
(* shape maps the fields of a Go struct to their types; a struct value      *)
(* maps them to values (numbers are written as strings).                    *)
(***************************************************************************)
ApiErrorShape == [code |-> "number", message |-> "string", moreInfo |-> "string"]
OrderShape == [id |-> "number", instrument |-> "string"]
StatusShape == [code |-> "number", message |-> "string"]

Zero(shape) == [f \in DOMAIN shape |-> IF shape[f] = "number" THEN "0" ELSE ""]

OrderDoc == [valid |-> TRUE,
             obj |-> {<<"id", "number", "7">>, <<"instrument", "string", "EUR_USD">>}]
ErrDoc == [valid |-> TRUE,
           obj |-> {<<"code", "number", "1">>, <<"message", "string", "bad">>,
                    <<"moreInfo", "string", "see docs">>}]
TypeErrDoc == [valid |-> TRUE,
               obj |-> {<<"code", "string", "one">>, <<"id", "string", "seven">>}]
MalformedDoc == [valid |-> FALSE, obj |-> {}]

Member(obj, f) == CHOOSE m \in obj : m[1] = f

\* the fields of the object that the struct has and that have its type
Fits(obj, shape) ==
    {f \in DOMAIN shape : \E m \in obj : m[1] = f /\ m[2] = shape[f]}

Clashes(obj, shape) ==
    {f \in DOMAIN shape : \E m \in obj : m[1] = f /\ m[2] # shape[f]}

\* dec.Decode(&v): fields of the struct that the object has are overwritten,
\* the others are left alone; a field of the wrong type is skipped and
\* reported after the rest was stored.
Decode(doc, shape, v) ==
    IF ~doc.valid
    THEN [v |-> v, err |-> [kind |-> "decode", e |-> "invalid character", api |-> {}]]
    ELSE [v |-> [f \in DOMAIN shape |->
                   IF f \in Fits(doc.obj, shape) THEN Member(doc.obj, f)[3] ELSE v[f]],
          err |-> IF Clashes(doc.obj, shape) = {} THEN NoErr
                  ELSE [kind |-> "decode", e |-> "cannot unmarshal", api |-> {}]]

\* a struct value as a set of <<field, value>>, so that values of different
\* struct types can sit in one error value
Fields(v) == {<<f, v[f]>> : f \in DOMAIN v}

(***************************************************************************)
(* Responses.  A body is [doc, read, closed, tee]: read is how far it was  *)
(* consumed ("none", "value", "eof"), closed counts the Close calls, tee   *)
(* says that what the decoder read was copied to os.Stderr.                *)
(***************************************************************************)
NewBody(doc) == [doc |-> doc, read |-> "none", closed |-> 0, tee |-> FALSE]

NilRsp == [status |-> 0, header |-> EmptyHeader, body |-> NewBody(MalformedDoc)]

Response(status, header, doc) ==
    [status |-> status, header |-> header, body |-> NewBody(doc)]

\* trace(rdr): io.TeeReader(rdr, os.Stderr)
Trace(body) == [body EXCEPT !.tee = TRUE]

\* the decoder reads the body up to the end of the first JSON value, or up
\* to the syntax error
ReadValue(body) == [body EXCEPT !.read = IF @ = "eof" THEN "eof" ELSE "value"]

closeResponseNoClose(rc) == [rc EXCEPT !.read = "eof"]

\* closeResponse: io.Copy(ioutil.Discard, rc); rc.Close()
closeResponse(rc) == [rc EXCEPT !.read = "eof", !.closed = @ + 1]

TransportErrors == {"dial tcp: i/o timeout", "tls: handshake failure"}

\* what c.Do can return: (nil, err) or (rsp, nil)
DoErr(e) == [rsp |-> NilRsp, err |-> [kind |-> "transport", e |-> e, api |-> {}]]
DoRsp(r) == [rsp |-> r, err |-> NoErr]

Statuses == {201, 399, 400, 500}
Docs == {OrderDoc, ErrDoc, TypeErrDoc, MalformedDoc}

DoOutcomes ==
    {DoErr(e) : e \in TransportErrors}
    \cup {DoRsp(Response(s, EmptyHeader, d)) : s \in Statuses, d \in Docs}

ConcOutcomes ==
    {DoErr("dial tcp: i/o timeout"),
     DoRsp(Response(201, EmptyHeader, OrderDoc)),
     DoRsp(Response(400, EmptyHeader, ErrDoc))}

(***************************************************************************)
(* requestAndDecode, as the steps of one goroutine.                        *)
(***************************************************************************)
ReqIds == 1 .. (NThreads + 1)

AllocReqReuse(h) == 1

\* http.NewRequest returns a new object: the first free cell of the heap
AllocReq(h) == CHOOSE i \in ReqIds : h[i] = NilReq /\ \A j \in ReqIds : j < i => h[j] # NilReq

NoArgs == [method |-> "", urlStr |-> "", data |-> NoData, shape |-> "none"]

ShapeOf(name) ==
    CASE name = "Order" -> OrderShape
      [] name = "Status" -> StatusShape
      [] OTHER -> [none |-> "string"]

\* lines 343-351: build the request; a failure of NewRequest is returned
Call(t, methods, urls, datas, shapes) ==
    /\ client # NilClient
    /\ pc[t] = "idle"
    /\ \E method \in methods, urlStr \in urls, data \in datas, shape \in shapes :
         LET nr == NewRequest(client, method, urlStr, BodyReader(data))
             id == AllocReq(heap)
         IN /\ args' = [args EXCEPT ![t] = [method |-> method, urlStr |-> urlStr,
                                            data |-> data, shape |-> shape]]
            /\ target' = [target EXCEPT ![t] = Zero(ShapeOf(shape))]
            /\ dolog' = [dolog EXCEPT ![t] = <<>>]
            /\ IF nr.err # NoErr
               THEN /\ pc' = [pc EXCEPT ![t] = "done"]
                    /\ ret' = [ret EXCEPT ![t] = nr.err]
                    /\ UNCHANGED <<req, heap>>
               ELSE /\ pc' = [pc EXCEPT ![t] = "do"]
                    /\ req' = [req EXCEPT ![t] = id]
                    /\ heap' = [heap EXCEPT ![id] = nr.req]
                    /\ UNCHANGED ret
    /\ UNCHANGED <<client, ctor, Debug, rsp, pr, pret, pollLog, npolls,
                   mreq, mprev, mlast>>

\* getAndDecode: requestAndDecode(c, "GET", urlStr, nil, v)
getAndDecode(t, urls, shapes) == Call(t, {"GET"}, urls, {NoData}, shapes)

DoResultRetry(o, n) ==
    IF o.err # NoErr /\ n < 1
    THEN [pc |-> "do", rsp |-> NilRsp, ret |-> NoErr]
    ELSE IF o.err # NoErr
    THEN [pc |-> "done", rsp |-> NilRsp, ret |-> o.err]
    ELSE [pc |-> "decode", rsp |-> o.rsp, ret |-> NoErr]

\* lines 356-360: what follows c.Do's answer o; n is the number of c.Do calls
\* made before this one
DoResult(o, n) ==
    IF o.err # NoErr
    THEN [pc |-> "done", rsp |-> NilRsp, ret |-> o.err]
    ELSE [pc |-> "decode", rsp |-> o.rsp, ret |-> NoErr]

Do(t, outcomes) ==
    /\ pc[t] = "do"
    /\ \E o \in outcomes :
         LET d == DoResult(o, Len(dolog[t]))
         IN /\ pc' = [pc EXCEPT ![t] = d.pc]
            /\ rsp' = [rsp EXCEPT ![t] = d.rsp]
            /\ ret' = [ret EXCEPT ![t] = d.ret]
            /\ dolog' = [dolog EXCEPT ![t] = Append(@, o.err.e)]
    /\ UNCHANGED <<client, ctor, Debug, args, req, heap, target, pr, pret,
                   pollLog, npolls, mreq, mprev, mlast>>

DecodeResultBoundary(r, shapeName, v, dbg) ==
    LET body == IF dbg = "trace" THEN Trace(r.body) ELSE r.body
        read == ReadValue(body)
        ok == Decode(body.doc, ShapeOf(shapeName), v)
        ae == Decode(body.doc, ApiErrorShape, Zero(ApiErrorShape))
    IN IF r.status <= 400
       THEN [v |-> ok.v, ret |-> ok.err, body |-> closeResponse(read)]
       ELSE IF ae.err # NoErr
       THEN [v |-> v, ret |-> ae.err, body |-> closeResponse(read)]
       ELSE [v |-> v, ret |-> [kind |-> "api", e |-> "", api |-> Fields(ae.v)],
             body |-> closeResponse(read)]

\* lines 360-378: the deferred closeResponse runs on each of the three returns
DecodeResult(r, shapeName, v, dbg) ==
    LET body == IF dbg = "trace" THEN Trace(r.body) ELSE r.body
        read == ReadValue(body)
        ok == Decode(body.doc, ShapeOf(shapeName), v)
        ae == Decode(body.doc, ApiErrorShape, Zero(ApiErrorShape))
    IN IF r.status < 400
       THEN [v |-> ok.v, ret |-> ok.err, body |-> closeResponse(read)]
       ELSE IF ae.err # NoErr
       THEN [v |-> v, ret |-> ae.err, body |-> closeResponse(read)]
       ELSE [v |-> v, ret |-> [kind |-> "api", e |-> "", api |-> Fields(ae.v)],
             body |-> closeResponse(read)]

DecodeStep(t) ==
    /\ pc[t] = "decode"
    /\ LET d == DecodeResult(rsp[t], args[t].shape, target[t], Debug)
       IN /\ target' = [target EXCEPT ![t] = d.v]
          /\ ret' = [ret EXCEPT ![t] = d.ret]
          /\ rsp' = [rsp EXCEPT ![t] = [@ EXCEPT !.body = d.body]]
    /\ pc' = [pc EXCEPT ![t] = "done"]
    /\ UNCHANGED <<client, ctor, Debug, args, req, heap, dolog, pr, pret,
                   pollLog, npolls, mreq, mprev, mlast>>

\* the caller has the result; the locals of the call are gone
Return(t) ==
    /\ pc[t] = "done"
    /\ pc' = [pc EXCEPT ![t] = "idle"]
    /\ args' = [args EXCEPT ![t] = NoArgs]
    /\ heap' = IF req[t] = 0 THEN heap ELSE [heap EXCEPT ![req[t]] = NilReq]
    /\ req' = [req EXCEPT ![t] = 0]
    /\ dolog' = [dolog EXCEPT ![t] = <<>>]
    /\ rsp' = [rsp EXCEPT ![t] = NilRsp]
    /\ ret' = [ret EXCEPT ![t] = NoErr]
    /\ target' = [target EXCEPT ![t] = Zero(ShapeOf("none"))]
    /\ UNCHANGED <<client, ctor, Debug, pr, pret, pollLog, npolls,
                   mreq, mprev, mlast>>

(***************************************************************************)
(* The constructors, as calls of the one caller that sets the Client up.   *)
(***************************************************************************)
EnvNames == {"fxpractice", "fxtrade", "sandbox", ""}
Tokens == {"", "tok"}
HttpClients == {NilHttpClient, CustomHttpClient}

NoCtor == [fn |-> "", environment |-> "", token |-> "",
           httpClient |-> NilHttpClient, c |-> NilClient, err |-> ""]

Constructed(fn, environment, token, httpClient, r) ==
    /\ ctor' = [fn |-> fn, environment |-> environment, token |-> token,
                httpClient |-> httpClient, c |-> r.c, err |-> r.err]
    /\ client' = r.c
    /\ UNCHANGED <<Debug, pc, args, req, heap, dolog, rsp, ret, target, pr, pret,
                   pollLog, npolls, mreq, mprev, mlast>>

CallNewClient(envs, tokens, https) ==
    /\ client = NilClient
    /\ \E environment \in envs, token \in tokens, httpClient \in https :
         Constructed("NewClient", environment, token, httpClient,
                     NewClient(environment, token, httpClient))

CallNewFxPracticeClient ==
    /\ client = NilClient
    /\ \E token \in Tokens :
         Constructed("NewFxPracticeClient", "fxpractice", token, NilHttpClient,
                     NewFxPracticeClient(token))

CallNewFxTradeClient ==
    /\ client = NilClient
    /\ \E token \in Tokens :
         Constructed("NewFxTradeClient", "fxtrade", token, NilHttpClient,
                     NewFxTradeClient(token))

AccountIds == {0, 8108490}

\* SelectAccount: c.accountId = accountId
SelectAccount ==
    /\ client # NilClient
    /\ \E accountId \in AccountIds :
         /\ accountId # client.accountId
         /\ client' = [client EXCEPT !.accountId = accountId]
    /\ UNCHANGED <<ctor, Debug, pc, args, req, heap, dolog, rsp, ret, target, pr,
                   pret, pollLog, npolls, mreq, mprev, mlast>>

(***************************************************************************)
(* PollRequest.                                                            *)
(***************************************************************************)
NilPollRequest == [c |-> NilClient, req |-> 0]
NoPollRet == [rsp |-> NilRsp, err |-> NoErr]

EtagValues == {<<>>, <<"">>, <<"v1">>, <<"v2">>}
PollStatuses == {200, 304, 404}

PollOutcomes ==
    {DoErr(e) : e \in TransportErrors}
    \cup {DoRsp(Response(s, [EmptyHeader EXCEPT !["Etag"] = tag], OrderDoc)) :
            s \in PollStatuses, tag \in EtagValues}

\* the factory on Client: a request prepared by Client.NewRequest, held
\* together with the Client
NewPollRequest ==
    /\ client # NilClient
    /\ pr = NilPollRequest
    /\ pc[1] = "idle"
    /\ \E urlStr \in {RelativeUrl, AbsoluteUrl} :
         LET nr == NewRequest(client, "GET", urlStr, NilBody)
             id == AllocReq(heap)
         IN /\ heap' = [heap EXCEPT ![id] = nr.req]
            /\ pr' = [c |-> client, req |-> id]
    /\ UNCHANGED <<client, ctor, Debug, pc, args, req, dolog, rsp, ret, target,
                   pret, pollLog, npolls, mreq, mprev, mlast>>

PollResultNoSet(r, o) ==
    IF o.err # NoErr
    THEN [req |-> r, rsp |-> NilRsp, err |-> o.err, sent |-> <<r.header>>]
    ELSE [req |-> r, rsp |-> o.rsp, err |-> NoErr, sent |-> <<r.header>>]

PollResultClearsTag(r, o) ==
    LET etag == HeaderGet(o.rsp.header, "ETag")
    IN IF o.err # NoErr
       THEN [req |-> r, rsp |-> NilRsp, err |-> o.err, sent |-> <<r.header>>]
       ELSE [req |-> [r EXCEPT !.header =
                        IF etag # "" THEN HeaderSet(@, "If-None-Match", etag)
                        ELSE [@ EXCEPT !["If-None-Match"] = <<>>]],
             rsp |-> o.rsp, err |-> NoErr, sent |-> <<r.header>>]

\* Poll on the held request r, c.Do answering o: the request afterwards, what
\* is returned, and the headers of each request dispatched
PollResult(r, o) ==
    LET etag == HeaderGet(o.rsp.header, "ETag")
    IN IF o.err # NoErr
       THEN [req |-> r, rsp |-> NilRsp, err |-> o.err, sent |-> <<r.header>>]
       ELSE [req |-> IF etag # ""
                     THEN [r EXCEPT !.header = HeaderSet(@, "If-None-Match", etag)]
                     ELSE r,
             rsp |-> o.rsp, err |-> NoErr, sent |-> <<r.header>>]

LogEntries(sent, o) ==
    [i \in 1 .. Len(sent) |->
       [header |-> sent[i], err |-> o.err.e, etag |-> o.rsp.header["Etag"]]]

Poll ==
    /\ pr # NilPollRequest
    /\ pc[1] = "idle"
    /\ npolls < MaxPolls
    /\ \E o \in PollOutcomes :
         LET p == PollResult(heap[pr.req], o)
         IN /\ heap' = [heap EXCEPT ![pr.req] = p.req]
            /\ pret' = [rsp |-> p.rsp, err |-> p.err]
            /\ pollLog' = pollLog \o LogEntries(p.sent, o)
    /\ npolls' = npolls + 1
    /\ UNCHANGED <<client, ctor, Debug, pc, args, req, dolog, rsp, ret, target,
                   pr, mreq, mprev, mlast>>

(***************************************************************************)
(* The modifiers on their own.                                             *)
(***************************************************************************)
MaxMods == 3

Modifiers ==
    {[type |-> "TokenAuthenticator", val |-> "tok"],
     [type |-> "Environment", val |-> "fxpractice"],
     [type |-> "Environment", val |-> "fxtrade"],
     [type |-> "DateFormat", val |-> "UNIX"],
     [type |-> "DateFormat", val |-> "RFC3339"],
     [type |-> "ContentType", val |-> "application/x-www-form-urlencoded"],
     [type |-> "ContentType", val |-> "application/json"]}

NoMod == [type |-> "", val |-> ""]

FreshRequests ==
    {HttpNewRequest(m, ParseURL(u), BodyReader(d)) :
       m \in {"GET", "POST"}, u \in {RelativeUrl, AbsoluteUrl},
       d \in {NoData, UnitsData}}

ModifyStep ==
    /\ Len(mreq.modlog) < MaxMods
    /\ \E m \in Modifiers :
         /\ mreq' = Modify(m, mreq)
         /\ mprev' = mreq
         /\ mlast' = m
    /\ UNCHANGED <<client, ctor, Debug, pc, args, req, heap, dolog, rsp, ret,
                   target, pr, pret, pollLog, npolls>>

(***************************************************************************)
(* Specifications.                                                         *)
(***************************************************************************)
InitProgram ==
    /\ client = NilClient
    /\ ctor = NoCtor
    /\ pc = [t \in Threads |-> "idle"]
    /\ args = [t \in Threads |-> NoArgs]
    /\ req = [t \in Threads |-> 0]
    /\ heap = [i \in ReqIds |-> NilReq]
    /\ dolog = [t \in Threads |-> <<>>]
    /\ rsp = [t \in Threads |-> NilRsp]
    /\ ret = [t \in Threads |-> NoErr]
    /\ target = [t \in Threads |-> Zero(ShapeOf("none"))]
    /\ pr = NilPollRequest
    /\ pret = NoPollRet
    /\ pollLog = <<>>
    /\ npolls = 0

Init ==
    /\ InitProgram
    /\ Debug \in {"", "trace"}
    /\ mreq = NilReq /\ mprev = NilReq /\ mlast = NoMod

Datas == {NoData, UnitsData, KeyOnlyData}
ShapeNames == {"Order", "Status"}

Next ==
    \/ CallNewClient(EnvNames, Tokens, HttpClients)
    \/ CallNewFxPracticeClient
    \/ CallNewFxTradeClient
    \/ SelectAccount
    \/ getAndDecode(1, UrlStrs, ShapeNames)
    \/ Call(1, {"POST"}, UrlStrs, Datas, ShapeNames)
    \/ Do(1, DoOutcomes)
    \/ DecodeStep(1)
    \/ Return(1)

Spec == Init /\ [][Next]_vars

\* one caller that polls, and calls requestAndDecode between polls
NextPoll ==
    \/ CallNewClient({"fxpractice", "fxtrade"}, {"tok"}, {NilHttpClient})
    \/ NewPollRequest
    \/ Poll
    \/ Call(1, {"POST"}, {RelativeUrl}, {NoData, UnitsData}, {"Order"})
    \/ Do(1, ConcOutcomes \cup {DoErr(e) : e \in TransportErrors})
    \/ DecodeStep(1)
    \/ Return(1)

SpecPoll == Init /\ [][NextPoll]_vars

NextConc ==
    \/ CallNewClient({"fxtrade"}, {"tok"}, {NilHttpClient})
    \/ \E t \in Threads :
         \/ getAndDecode(t, {RelativeUrl, AbsoluteUrl}, {"Order"})
         \/ Call(t, {"POST"}, {RelativeUrl, AbsoluteUrl}, {UnitsData}, {"Order"})
         \/ Do(t, ConcOutcomes)
         \/ DecodeStep(t)
         \/ Return(t)

SpecConc == Init /\ [][NextConc]_vars

InitMod ==
    /\ InitProgram
    /\ Debug = ""
    /\ mreq \in FreshRequests /\ mprev = mreq /\ mlast = NoMod

NextMod == ModifyStep

SpecMod == InitMod /\ [][NextMod]_vars

(***************************************************************************)
(* Properties.                                                             *)
(***************************************************************************)
FormType == <<"application/x-www-form-urlencoded">>

Returned(t) == pc[t] = "done"
GotResponse(t) == rsp[t].status # 0
HeldHeader == heap[pr.req].header

\* the host Environment e stands for (section 6 of the spec, host resolution)
DerivedHost(e) ==
    CASE e = "fxpractice" -> "api-fxpractice.oanda.com"
      [] e = "fxtrade" -> "api-fxtrade.oanda.com"
      [] OTHER -> "?"

\* what a decoded body is expected to leave in a zero target of each type
Decoded(doc, shapeName) ==
    CASE doc = OrderDoc /\ shapeName = "Order" -> [id |-> "7", instrument |-> "EUR_USD"]
      [] doc = OrderDoc /\ shapeName = "Status" -> [code |-> "0", message |-> ""]
      [] doc = ErrDoc /\ shapeName = "Order" -> [id |-> "0", instrument |-> ""]
      [] doc = ErrDoc /\ shapeName = "Status" -> [code |-> "1", message |-> "bad"]

ServiceError(code, message, moreInfo) ==
    [kind |-> "api", e |-> "",
     api |-> {<<"code", code>>, <<"message", message>>, <<"moreInfo", moreInfo>>}]

\* C1: a returned call that got a response took the branch its status picks:
\* below 400 the body went into the target and, the body being well-formed,
\* no error is returned; from 400 on the body went into a Service Error,
\* which is the error returned, and the target is as it was.
C1_StatusRouting ==
    \A t \in Threads :
      (Returned(t) /\ GotResponse(t)) =>
        LET doc == rsp[t].body.doc
            sh == args[t].shape
        IN IF rsp[t].status < 400
           THEN /\ ret[t].kind \in {"nil", "decode"}
                /\ doc \in {OrderDoc, ErrDoc} =>
                     ret[t] = NoErr /\ target[t] = Decoded(doc, sh)
                /\ doc \in {MalformedDoc, TypeErrDoc} => ret[t].kind = "decode"
           ELSE /\ target[t] = Zero(ShapeOf(sh))
                /\ ret[t].kind \in {"api", "decode"}
                /\ doc = ErrDoc => ret[t] = ServiceError("1", "bad", "see docs")
                /\ doc = OrderDoc => ret[t] = ServiceError("0", "", "")
                /\ doc \in {MalformedDoc, TypeErrDoc} => ret[t].kind = "decode"

C1_Witness ==
    \E t \in Threads :
      /\ Returned(t) /\ rsp[t].status = 400 /\ rsp[t].body.doc = ErrDoc
      /\ args[t].shape = "Status"
      /\ ret[t].kind = "api"

\* C2: a constructor call returns a Client only for a recognized environment
\* name and a non-empty credential, and fails with an error otherwise.
C2_ConstructValidates ==
    ctor.fn # "" =>
      IF ctor.environment \in {"fxpractice", "fxtrade"} /\ ctor.token # ""
      THEN ctor.c # NilClient /\ ctor.err = ""
      ELSE ctor.c = NilClient /\ ctor.err # ""

\* C3: the second Poll carries If-None-Match with the entity tag of the first
\* Poll's response, and carries none if that response had no tag; the first
\* Poll itself carries none.
C3_SecondPollConditional ==
    (Len(pollLog) >= 1 => pollLog[1].header["If-None-Match"] = <<>>)
    /\ ((Len(pollLog) >= 2 /\ pollLog[1].err = "") =>
          LET tag == pollLog[1].etag
              inm == pollLog[2].header["If-None-Match"]
          IN /\ tag = <<"v1">> => inm = <<"v1">>
             /\ tag = <<"v2">> => inm = <<"v2">>
             /\ tag \in {<<>>, <<"">>} => inm = <<>>)

C3_Witness ==
    /\ Len(pollLog) >= 2
    /\ pollLog[1].etag = <<"v1">>
    /\ pollLog[2].header["If-None-Match"] = <<"v1">>

\* C4: the Client's modifiers are the date format, the content type, then the
\* caller's (environment, token), for as long as the Client lives; a request
\* built by NewRequest had each applied once, in that order, and carries
\* exactly what they set.
C4_ModifierOrder ==
    client # NilClient =>
      /\ client.reqMods =
           <<[type |-> "DateFormat", val |-> "UNIX"],
             [type |-> "ContentType", val |-> "application/x-www-form-urlencoded"],
             [type |-> "Environment", val |-> ctor.environment],
             [type |-> "TokenAuthenticator", val |-> ctor.token]>>
      /\ \A t \in Threads :
           req[t] # 0 =>
             LET r == heap[req[t]]
             IN /\ r.modlog = client.reqMods
                /\ r.header["X-Accept-Datetime-Format"] = <<"UNIX">>
                /\ r.header["Authorization"] = <<"Bearer " \o ctor.token>>
                /\ r.header["Content-Type"] \in {<<>>, FormType}
                /\ r.header["If-None-Match"] = <<>> /\ r.header["Etag"] = <<>>
                /\ r.url.scheme = "https"
                /\ r.url.host = IF args[t].urlStr = AbsoluteUrl THEN "localhost:8080"
                                ELSE DerivedHost(ctor.environment)

C4_Witness ==
    /\ pc[1] = "do"
    /\ args[1].urlStr = RelativeUrl /\ args[1].data = UnitsData
    /\ heap[req[1]].url.host = "api-fxtrade.oanda.com"
    /\ Len(heap[req[1]].modlog) = 4

\* C5: after the Environment modifier the scheme is https; a host that was
\* set is as it was, a missing host is the one derived from the environment
\* name; nothing else changed; and a second application changes nothing.
WithoutLog(r) == [r EXCEPT !.modlog = <<>>]

C5_EnvironmentIdempotent ==
    mlast.type = "Environment" =>
      /\ mreq.url.scheme = "https"
      /\ mprev.url.host # "" => mreq.url.host = mprev.url.host
      /\ mprev.url.host = "" => mreq.url.host = DerivedHost(mlast.val)
      /\ mreq.header = mprev.header /\ mreq.body = mprev.body
      /\ mreq.url.path = mprev.url.path /\ mreq.method = mprev.method
      /\ (Len(mprev.modlog) >= 1 /\ mprev.modlog[Len(mprev.modlog)] = mlast) =>
           WithoutLog(mreq) = WithoutLog(mprev)

C5_Witness ==
    /\ mlast = [type |-> "Environment", val |-> "fxtrade"]
    /\ Len(mprev.modlog) >= 1 /\ mprev.modlog[Len(mprev.modlog)] = mlast
    /\ mreq.url.host = "localhost:8080"

\* C6: a request built by requestAndDecode has a body exactly when form
\* parameters were given, and carries the form-encoded content type exactly
\* when it has a body; a bodyless one has no content-type header.
C6_ContentTypeIffBody ==
    \A t \in Threads :
      req[t] # 0 =>
        LET r == heap[req[t]]
        IN /\ (r.body # NilBody) <=> (args[t].data # NoData)
           /\ r.body # NilBody => r.header["Content-Type"] = FormType
           /\ r.body = NilBody => r.header["Content-Type"] = <<>>

C6_Witness ==
    /\ pc[1] = "do"
    /\ args[1].urlStr = AbsoluteUrl /\ args[1].data = UnitsData
    /\ heap[req[1]].body = [present |-> TRUE, content |-> <<<<"units", "2">>>>]
    /\ heap[req[1]].header["Content-Type"] = FormType

\* C7: a response body is open and unclosed while the call decodes, and when
\* the call has returned it has been read to its end and closed exactly once,
\* whichever exit was taken.
C7_BodyReleased ==
    \A t \in Threads :
      /\ (pc[t] = "decode") => rsp[t].body.closed = 0
      /\ (Returned(t) /\ GotResponse(t)) =>
           rsp[t].body.read = "eof" /\ rsp[t].body.closed = 1

C7_Witness ==
    \E t \in Threads :
      /\ Returned(t) /\ rsp[t].status = 500 /\ rsp[t].body.doc = MalformedDoc
      /\ ret[t].kind = "decode"
      /\ rsp[t].body.closed = 1

\* C8: a call dispatches at most one request; a transport error is returned
\* as it came, with no response; a Poll that failed left the held request's
\* headers as they were when it was dispatched.
C8_NoRetryErrorsUnchanged ==
    /\ \A t \in Threads :
         /\ Len(dolog[t]) <= 1
         /\ (Returned(t) /\ Len(dolog[t]) = 1 /\ dolog[t][1] # "") =>
              /\ ret[t] = [kind |-> "transport", e |-> dolog[t][1], api |-> {}]
              /\ rsp[t] = NilRsp
         /\ (Returned(t) /\ ret[t].kind = "transport") =>
              Len(dolog[t]) = 1 /\ dolog[t][1] # ""
    /\ Len(pollLog) = npolls
    /\ (Len(pollLog) >= 1 /\ pollLog[Len(pollLog)].err # "") =>
         /\ pret = [rsp |-> NilRsp,
                    err |-> [kind |-> "transport", e |-> pollLog[Len(pollLog)].err,
                             api |-> {}]]
         /\ HeldHeader = pollLog[Len(pollLog)].header

C8_Witness ==
    /\ Returned(1) /\ ret[1].kind = "transport"
    /\ Len(pollLog) >= 2
    /\ pollLog[1].etag = <<"v1">>
    /\ pollLog[Len(pollLog)].err = "tls: handshake failure"
    /\ HeldHeader["If-None-Match"] = <<"v1">>

\* C9: goroutines sharing a Client each hold a request object of their own,
\* built from their own arguments alone; the Client is as it was constructed;
\* and each result is the one the goroutine's own response gives.
C9_CallsIndependent ==
    /\ client = ctor.c
    /\ \A t \in Threads :
         /\ \A u \in Threads : (u # t /\ req[t] # 0) => req[u] # req[t]
         /\ req[t] # 0 =>
              LET r == heap[req[t]]
              IN /\ r.method = args[t].method
                 /\ r.url.host = IF args[t].urlStr = AbsoluteUrl THEN "localhost:8080"
                                 ELSE "api-fxtrade.oanda.com"
                 /\ r.body = IF args[t].data = UnitsData
                             THEN [present |-> TRUE, content |-> <<<<"units", "2">>>>]
                             ELSE NilBody
                 /\ r.header["Content-Type"] =
                      IF args[t].data = UnitsData THEN FormType ELSE <<>>
         /\ Returned(t) =>
              /\ (rsp[t].status = 201) =>
                   ret[t] = NoErr /\ target[t] = [id |-> "7", instrument |-> "EUR_USD"]
              /\ (rsp[t].status = 400) =>
                   /\ ret[t] = ServiceError("1", "bad", "see docs")
                   /\ target[t] = [id |-> "0", instrument |-> ""]
              /\ (rsp[t].status = 0) => ret[t].kind = "transport"

C9_Witness ==
    /\ pc[1] = "do" /\ pc[2] = "decode"
    /\ args[1] # args[2]
    /\ rsp[2].status = 400

\* the tag a sequence of Poll answers leaves: that of the last answer that
\* is a response with a non-empty ETag
RECURSIVE LastTag(_)
LastTag(log) ==
    IF log = <<>> THEN <<>>
    ELSE LET last == log[Len(log)]
         IN IF last.err = "" /\ last.etag # <<>> /\ last.etag # <<"">>
            THEN <<last.etag[1]>>
            ELSE LastTag(SubSeq(log, 1, Len(log) - 1))

\* C10: the held request's If-None-Match is the entity tag of the latest
\* response that carried a non-empty one, whatever its status, and is absent
\* if there was none; an answer without a tag leaves it alone.
C10_HeldTagIsLatest ==
    pr # NilPollRequest =>
      /\ HeldHeader["If-None-Match"] = LastTag(pollLog)
      /\ Len(HeldHeader["If-None-Match"]) <= 1

C10_Witness ==
    /\ Len(pollLog) = 3
    /\ pollLog[1].etag = <<"v1">>
    /\ pollLog[2].etag = <<"v2">>
    /\ pollLog[3].err = "" /\ pollLog[3].etag = <<>>
    /\ pret.rsp.status = 404
    /\ HeldHeader["If-None-Match"] = <<"v2">>

====
